---- MODULE Spec2Model ----
(***************************************************************************)
(* One HTTP exchange of the stock-data application: the browser form       *)
(* controller (src/app/page.tsx, handleSubmit) and the streaming POST      *)
(* handler (src/app/api/stock-data/route.ts, POST).                        *)
(*                                                                         *)
(* A text that may hold newlines is modelled as a sequence of tokens: the   *)
(* newline character is the token NL, and every maximal run of characters  *)
(* between newlines is one token, itself the sequence of the pieces the    *)
(* code builds it from or looks into (a prefix, a number, a JSON string).  *)
(* The response body is the text `sent`; the network hands the reader      *)
(* arbitrary non-empty parts of it, cut at either side of any newline.  A  *)
(* cut inside a run completes the same blocks as a cut at its start.       *)
(***************************************************************************)
EXTENDS Integers, Sequences, FiniteSets, TLC

\* ------------------------------------------------------------------ bounds
\* Most comma-separated fields typed into the symbols box (so most symbols).
MaxFields == 2
\* Most rows the provider returns for one historical() call.
MaxRows == 2
\* Most events in a response body fed to the page by some server.
MaxEvents == 3

\* --------------------------------------------------------------- constants
NL == <<"\n">>
\* JavaScript's undefined, for a field that holds a string when present.
Undefined == "undefined"
\* JavaScript's undefined, for a field that holds a number when present.
UndefinedNum == -1

MissingFieldsMsg == "Missing required fields"
ServerFailedMsg == "Failed to fetch stock data"
NoDataMsg == "No valid data retrieved for any symbols"
GenericErrorMsg == "An error occurred"
NoSymbolMsg == "Please enter at least one symbol"
NoBodyMsg == "No response body"
FileName == "stock_historical_data.csv"
\* The messages of errors the runtime raises (their wording is the engine's).
SyntaxErrorMsg == "SyntaxError: Unexpected token in JSON"
FetchFailedMsg == "TypeError: Failed to fetch"
NetworkErrorMsg == "TypeError: network error"
AbortedMsg == "aborted"

\* A thrown value: an Error with a message, or a value that is no Error.
ErrorOf(msg) == [isError |-> TRUE, message |-> msg]
NonError == [isError |-> FALSE, message |-> Undefined]
NoThrow == [isError |-> FALSE, message |-> ""]

\* What a cancelled response stream rejects later writes with.
CancelReasons == {ErrorOf(AbortedMsg), NonError}

\* ------------------------------------------------------------ text helpers
Last(s) == s[Len(s)]
Front(s) == SubSeq(s, 1, Len(s) - 1)

RECURSIVE Flatten(_)
Flatten(ss) == IF ss = <<>> THEN <<>> ELSE Head(ss) \o Flatten(Tail(ss))

RECURSIVE SeqsUpTo(_, _)
SeqsUpTo(S, n) ==
  IF n = 0 THEN {<<>>}
  ELSE LET shorter == SeqsUpTo(S, n - 1)
       IN shorter \cup {Append(s, x) : s \in shorter, x \in S}

\* body(v), with v evaluated once and held as a value.
Bind(v, body(_)) == CHOOSE r \in {body(x) : x \in {v}} : TRUE

\* Array.prototype.join: the strings of s with sep between them.
RECURSIVE Join(_, _)
Join(s, sep) ==
  IF s = <<>> THEN ""
  ELSE IF Len(s) = 1 THEN s[1]
  ELSE s[1] \o sep \o Join(Tail(s), sep)

\* Whether n newlines start at position i of text s.
NewlinesAt(s, i, n) == i + n - 1 <= Len(s) /\ \A j \in 0..(n - 1) : s[i + j] = NL

\* String.prototype.split on a separator of n newlines: the pieces between
\* the leftmost non-overlapping separators, the last piece included.
RECURSIVE SplitFrom(_, _, _, _)
SplitFrom(s, n, start, i) ==
  IF i + n - 1 > Len(s) THEN <<SubSeq(s, start, Len(s))>>
  ELSE IF NewlinesAt(s, i, n)
  THEN <<SubSeq(s, start, i - 1)>> \o SplitFrom(s, n, i + n, i + n)
  ELSE SplitFrom(s, n, start, i + 1)
SplitNL(s, n) == SplitFrom(s, n, 1, 1)

\* String.prototype.replace(tok, '') on a run s: the first occurrence of the
\* piece tok removed.
RemoveFirst(s, tok) ==
  IF \E i \in 1..Len(s) : s[i] = tok
  THEN LET i == CHOOSE k \in 1..Len(s) : s[k] = tok /\ \A j \in 1..(k - 1) : s[j] # tok
       IN SubSeq(s, 1, i - 1) \o SubSeq(s, i + 1, Len(s))
  ELSE s

\* -------------------------------------------------------------------- JSON
\* A JSON object on the wire, with the fields the two programs use; a field
\* that is absent holds Undefined / UndefinedNum.
JsonObj(type, current, total, error, message) ==
  [type |-> type, current |-> current, total |-> total, error |-> error, message |-> message]
NoJson == JsonObj(Undefined, UndefinedNum, UndefinedNum, Undefined, Undefined)

\* JSON.stringify: the defined fields in insertion order; undefined ones
\* left out.  The result is one run without newlines, given as its pieces:
\* every number and every string value is a piece of its own.
Stringify(o) ==
  LET fields ==
        <<IF o.type = Undefined THEN <<>> ELSE <<"\"type\":\"", o.type, "\"">>,
          IF o.current = UndefinedNum THEN <<>> ELSE <<"\"current\":", ToString(o.current)>>,
          IF o.total = UndefinedNum THEN <<>> ELSE <<"\"total\":", ToString(o.total)>>,
          IF o.error = Undefined THEN <<>> ELSE <<"\"error\":\"", o.error, "\"">>,
          IF o.message = Undefined THEN <<>> ELSE <<"\"message\":\"", o.message, "\"">> >>
      present == SelectSeq(fields, LAMBDA f : f # <<>>)
  IN <<"{">>
     \o Flatten([i \in 1..Len(present) |->
                   (IF i > 1 THEN <<",">> ELSE <<>>) \o present[i]])
     \o <<"}">>

\* ------------------------------------------------------------ the provider
\* What the symbols box can hold between two commas, and what
\* s.trim().toUpperCase() makes of it.
RawFields == {"", " ", "aapl", " Bad "}
TrimUpper(raw) ==
  CASE raw = "" -> ""
    [] raw = " " -> ""
    [] raw = "aapl" -> "AAPL"
    [] raw = " Bad " -> "BAD"
SymbolNames == {TrimUpper(r) : r \in RawFields} \ {""}

\* The date inputs: empty (never filled in) or a date.
DateInputs == {"", "2023-01-01"}

\* The provider's answers.  quote: throws, resolves to nothing, or resolves
\* to a quote.  historical: throws, or resolves to n rows, the k-th of which
\* is the range's k-th trading day.
QuoteOutcomes == {"throws", "empty", "quote"}
HistoricalOutcomes == {[throws |-> TRUE, rows |-> <<>>]}
                      \cup {[throws |-> FALSE, rows |-> [k \in 1..n |-> k]] : n \in 0..MaxRows}

\* ------------------------------------------------- the server's event text
\* The error field of a progress event.
ErrorField(failed) ==
  IF Len(failed) > 0 THEN "Failed to fetch: " \o Join(failed, ", ") ELSE Undefined

\* ProgressUpdate with the count read before it is incremented.
ProgressUpdateStale(count, total, failed) ==
  JsonObj("progress", count - 1, total, ErrorField(failed), Undefined)

ProgressUpdate(count, total, failed) ==
  JsonObj("progress", count, total, ErrorField(failed), Undefined)

ErrorPayload(msg) == JsonObj(Undefined, UndefinedNum, UndefinedNum, msg, Undefined)
MessageBody(msg) == JsonObj(Undefined, UndefinedNum, UndefinedNum, Undefined, msg)

\* json2csv's Parser with the fixed fields: the quoted header line, then one
\* line per row, joined by single newlines, no newline at the end.  A model
\* row holds the symbol and the date; the six numeric columns, which no
\* code here reads, are left empty.
CsvHeader == "\"symbol\",\"date\",\"open\",\"high\",\"low\",\"close\",\"volume\",\"adjClose\""
CsvLine(row) == "\"" \o row.symbol \o "\",\"day" \o ToString(row.date) \o "\",,,,,,"
ParserParse(rows) ==
  <<<<CsvHeader>>>> \o Flatten([i \in 1..Len(rows) |-> <<NL, <<CsvLine(rows[i])>>>>])

\* An event handed to writer.write: its name, and its JSON payload or CSV text.
ProgressEvent(u) == [event |-> "progress", json |-> u, csv |-> <<>>]
CompleteEvent(csv) == [event |-> "complete", json |-> NoJson, csv |-> csv]
ErrorEvent(msg) == [event |-> "error", json |-> ErrorPayload(msg), csv |-> <<>>]
NoEvent == [event |-> "none", json |-> NoJson, csv |-> <<>>]

\* `event: <name>\ndata: <payload>\n\n`, as the template strings build it.
Encode(e) ==
  LET payload == IF e.event = "complete" THEN e.csv ELSE <<Stringify(e.json)>>
  IN <<<<"event: ", e.event>>, NL, <<"data: ">> \o Head(payload)>>
     \o Tail(payload)
     \o <<NL, NL>>

\* error instanceof Error ? error.message : 'An error occurred'
MessageOf(e) == IF e.isError THEN e.message ELSE GenericErrorMsg

\* TagRows with the rows taken in reverse order.
TagRowsReversed(rows, symbol) ==
  [k \in 1..Len(rows) |-> [symbol |-> symbol, date |-> rows[Len(rows) + 1 - k]]]

\* TagRows with every row tagged and appended twice.
TagRowsTwice(rows, symbol) ==
  [k \in 1..(2 * Len(rows)) |-> [symbol |-> symbol, date |-> rows[(k + 1) \div 2]]]

\* `result.map(item => ({...item, symbol}))`
TagRows(rows, symbol) == [k \in 1..Len(rows) |-> [symbol |-> symbol, date |-> rows[k]]]

\* MissingFields without the check of the end date.
MissingFieldsNoEnd(b) ==
  \/ ~b.hasSymbols
  \/ Len(b.symbols) = 0
  \/ b.startDate = ""

\* `!symbols?.length || !startDate || !endDate`
MissingFields(b) ==
  \/ ~b.hasSymbols
  \/ Len(b.symbols) = 0
  \/ b.startDate = ""
  \/ b.endDate = ""

\* ------------------------------------------------ the client's block parser
\* The number a run of digits stands for.
IsNumber(tok) == \E n \in 0..(MaxFields + 1) : ToString(n) = tok
NumberOf(tok) == CHOOSE n \in 0..(MaxFields + 1) : ToString(n) = tok

\* The members of a JSON object text, `"key":value` between commas, or
\* <<>> when the text inside the braces is not of that form.
RECURSIVE Members(_)
Members(t) ==
  LET Then(first, n) ==
        IF Len(t) = n THEN <<first>>
        ELSE IF t[n + 1] # "," THEN <<>>
        ELSE Bind(SubSeq(t, n + 2, Len(t)), LAMBDA tail :
               Bind(Members(tail), LAMBDA rest :
                 IF rest = <<>> THEN <<>> ELSE <<first>> \o rest))
  IN IF Len(t) >= 3 /\ t[1] \in {"\"type\":\"", "\"error\":\"", "\"message\":\""} /\ t[3] = "\""
     THEN Then([key |-> t[1], str |-> t[2], num |-> UndefinedNum], 3)
     ELSE IF Len(t) >= 2 /\ t[1] \in {"\"current\":", "\"total\":"} /\ IsNumber(t[2])
     THEN Then([key |-> t[1], str |-> Undefined, num |-> NumberOf(t[2])], 2)
     ELSE <<>>

StrMember(ms, key) ==
  IF \E i \in 1..Len(ms) : ms[i].key = key
  THEN ms[CHOOSE i \in 1..Len(ms) : ms[i].key = key].str
  ELSE Undefined
NumMember(ms, key) ==
  IF \E i \in 1..Len(ms) : ms[i].key = key
  THEN ms[CHOOSE i \in 1..Len(ms) : ms[i].key = key].num
  ELSE UndefinedNum

\* JSON.parse on the runs the two programs exchange: an object text yields
\* its object; any other text (a CSV line among them) is a SyntaxError.
JsonParse(text) ==
  Bind(text, LAMBDA t :
    IF Len(t) >= 2 /\ t[1] = "{" /\ t[Len(t)] = "}"
    THEN Bind(SubSeq(t, 2, Len(t) - 1), LAMBDA inner :
           Bind(Members(inner), LAMBDA ms :
             IF ms = <<>>
             THEN [ok |-> FALSE, value |-> NoJson]
             ELSE [ok |-> TRUE,
                   value |-> JsonObj(StrMember(ms, "\"type\":\""), NumMember(ms, "\"current\":"),
                                     NumMember(ms, "\"total\":"), StrMember(ms, "\"error\":\""),
                                     StrMember(ms, "\"message\":\""))]))
    ELSE [ok |-> FALSE, value |-> NoJson])

\* What `new Blob([data])` holds for a parsed JSON object, as a text.
BlobText(value) == <<<<"[object Object]">>>>

\* ParseSymbols without the filter: empty fields stay in the list.
ParseSymbolsUnfiltered(fields) == [i \in 1..Len(fields) |-> TrimUpper(fields[i])]

\* `symbols.split(',').map(s => s.trim().toUpperCase()).filter(s => s !== '')`
\* on a text given as its comma-separated fields.
RECURSIVE ParseSymbols(_)
ParseSymbols(fields) ==
  IF fields = <<>> THEN <<>>
  ELSE LET s == TrimUpper(Head(fields))
       IN (IF s # "" THEN <<s>> ELSE <<>>) \o ParseSymbols(Tail(fields))

\* The texts of the symbols box: split(',') yields at least one field.
FormTexts == SeqsUpTo(RawFields, MaxFields) \ {<<>>}

\* One pass of the body of `for (const line of lines)` (page.tsx 70-102) on
\* the view state st = [progress, downloads, thrown].
HandleBlock(line, st) ==
  Bind(SplitNL(line, 1), LAMBDA parts :
    LET eventLine == Flatten(parts[1])
        dataLine == IF Len(parts) >= 2 THEN Flatten(parts[2]) ELSE <<>>
    IN IF eventLine = <<>> \/ dataLine = <<>>
       THEN st
       ELSE Bind(JsonParse(RemoveFirst(dataLine, "data: ")), LAMBDA parsed :
              LET event == RemoveFirst(eventLine, "event: ")
                  data == parsed.value
              IN IF ~parsed.ok
                 THEN [st EXCEPT !.thrown = ErrorOf(SyntaxErrorMsg)]
                 ELSE CASE event = <<"progress">> ->
                             [st EXCEPT !.progress = [current |-> data.current,
                                                      total |-> data.total,
                                                      error |-> data.error]]
                        [] event = <<"complete">> ->
                             [st EXCEPT !.downloads =
                                Append(@, [name |-> FileName, content |-> BlobText(data)])]
                        [] event = <<"error">> ->
                             [st EXCEPT !.thrown = ErrorOf(data.error)]
                        [] OTHER -> st))

\* ProcessBlocks going on with the next block after one has thrown.
RECURSIVE ProcessBlocksAll(_, _)
ProcessBlocksAll(lines, st) ==
  IF lines = <<>>
  THEN st
  ELSE Bind(Tail(lines), LAMBDA rest :
         Bind([HandleBlock(Head(lines), st) EXCEPT !.taken = st.taken + 1],
              LAMBDA next : ProcessBlocksAll(rest, next)))

\* The for loop over the complete blocks of one read: in order, until one
\* throws.  `taken` counts the blocks the loop has entered.
RECURSIVE ProcessBlocks(_, _)
ProcessBlocks(lines, st) ==
  IF lines = <<>> \/ st.thrown # NoThrow
  THEN st
  ELSE Bind(Tail(lines), LAMBDA rest :
         Bind([HandleBlock(Head(lines), st) EXCEPT !.taken = st.taken + 1],
              LAMBDA next : ProcessBlocks(rest, next)))

\* ------------------------------------------------------------------- state
VARIABLES
  \* the POST handler and its streaming task
  srv,            \* where the handler / task is (see the actions)
  body,           \* the request body, as req.json() yields it
  status,         \* the HTTP status of the response, 0 before there is one
  stream,         \* the TransformStream: "none", "open", "closed", "errored"
  pos,            \* the for-of loop's position in symbols
  processedCount,
  failedSymbols,
  allResults,
  thrown,         \* what the task's outer catch caught (NoThrow: nothing)
  pending,        \* the event of the writer.write the task is awaiting
  events,         \* history: the events the stream accepted, in order
  sent,           \* the response body so far, as text
  calls,          \* history: the delay / quote / historical calls made
  outcomes,       \* history: per processed symbol, what the provider did
  closeCalls,     \* history: how often writer.close() was called
  \* the connection
  conn,           \* "none", "up", "down"
  \* the form controller
  cpc,            \* "idle", "fetch", "read", "done"
  symbols,        \* the text of the symbols box, as its comma-separated fields
  loading,
  error,
  progress,
  buffer,
  rd,             \* how many tokens of `sent` the reader has returned
  downloads,      \* history: the files saved
  blocks          \* history: the blocks the for loop has taken up

serverVars == <<srv, body, status, stream, pos, processedCount,
                failedSymbols, allResults, thrown, pending, events, sent,
                calls, outcomes, closeCalls>>
clientVars == <<cpc, symbols, loading, error, progress, buffer, rd, downloads, blocks>>
vars == <<serverVars, conn, clientVars>>

Body(valid, hasSymbols, list, startDate, endDate) ==
  [valid |-> valid, hasSymbols |-> hasSymbols, symbols |-> list,
   startDate |-> startDate, endDate |-> endDate]

\* The bodies only a client other than the page can post: symbols absent
\* or empty, and text that is no JSON.  (Submit posts the others.)
OtherBodies ==
  {Body(TRUE, h, <<>>, d1, d2) : h \in BOOLEAN, d1 \in DateInputs, d2 \in DateInputs}
  \cup {Body(FALSE, FALSE, <<>>, "", "")}

\* Call with every call made for the first symbol of the list.
CallForFirst(op, symbol) == [op |-> op, symbol |-> body.symbols[1]]

Call(op, symbol) == [op |-> op, symbol |-> symbol]
\* What the provider did for a symbol: quote threw or was empty, or it
\* yielded a quote and historical threw, or historical returned n rows.
QuoteFailed(o) == [ok |-> FALSE, rows |-> 0, quote |-> o]
Failed == [ok |-> FALSE, rows |-> 0, quote |-> "quote"]
Rows(n) == [ok |-> TRUE, rows |-> n, quote |-> "quote"]

Init ==
  /\ srv = "idle"
  /\ body = Body(TRUE, FALSE, <<>>, "", "")
  /\ status = 0
  /\ stream = "none"
  /\ pos = 0
  /\ processedCount = 0
  /\ failedSymbols = <<>>
  /\ allResults = <<>>
  /\ thrown = NoThrow
  /\ pending = NoEvent
  /\ events = <<>>
  /\ sent = <<>>
  /\ calls = <<>>
  /\ outcomes = <<>>
  /\ closeCalls = 0
  /\ conn = "none"
  /\ cpc = "idle"
  /\ symbols = <<"">>
  /\ loading = FALSE
  /\ error = ""
  /\ progress = [current |-> 0, total |-> 0, error |-> Undefined]
  /\ buffer = <<>>
  /\ rd = 0
  /\ downloads = <<>>
  /\ blocks = <<>>

\* CatchAndFinally without the finally: the flag stays as it is.
CatchWithoutFinally(e) ==
  /\ error' = MessageOf(e)
  /\ loading' = loading
  /\ cpc' = "done"

\* page.tsx lines 104-108: the catch and the finally of handleSubmit.
CatchAndFinally(e) ==
  /\ error' = MessageOf(e)
  /\ loading' = FALSE
  /\ cpc' = "done"

\* ------------------------------------------------------------- the handler
\* POST, lines 33-45 and 115-127: parse, validate, create the stream, start
\* the task (which runs up to its first await, the delay) and answer.
Post ==
  /\ srv = "pending"
  /\ conn' = "up"
  /\ cpc' = IF cpc = "fetch" THEN "read" ELSE cpc
  /\ IF ~body.valid
     THEN /\ status' = 500
          /\ sent' = <<Stringify(MessageBody(ServerFailedMsg))>>
          /\ srv' = "replied"
          /\ UNCHANGED <<stream, pos, calls>>
     ELSE IF MissingFields(body)
     THEN /\ status' = 400
          /\ sent' = <<Stringify(MessageBody(MissingFieldsMsg))>>
          /\ srv' = "replied"
          /\ UNCHANGED <<stream, pos, calls>>
     ELSE /\ status' = 200
          /\ stream' = "open"
          /\ pos' = 1
          /\ calls' = <<Call("delay", body.symbols[1])>>
          /\ srv' = "delay"
          /\ sent' = sent
  /\ UNCHANGED <<body, processedCount, failedSymbols, allResults,
                 thrown, pending, events, outcomes, closeCalls>>
  /\ UNCHANGED <<symbols, loading, error, progress, buffer, rd, downloads, blocks>>

\* Line 61-64: the delay is over; quote is called.
DelayElapsed ==
  /\ srv = "delay"
  /\ calls' = Append(calls, Call("quote", body.symbols[pos]))
  /\ srv' = "quote"
  /\ UNCHANGED <<body, status, stream, pos, processedCount, failedSymbols,
                 allResults, thrown, pending, events, sent, outcomes, closeCalls>>
  /\ UNCHANGED <<conn, clientVars>>

\* CatchSymbol keeping only the symbol that failed last.
CatchSymbolOnlyLast(failed, symbol) == <<symbol>>

\* CatchSymbol recording a symbol only the first time it fails.
CatchSymbolOnce(failed, symbol) ==
  IF \E i \in 1..Len(failed) : failed[i] = symbol THEN failed ELSE Append(failed, symbol)

\* Lines 75-78: the per-symbol catch.
CatchSymbol(failed, symbol) == Append(failed, symbol)

\* Lines 80-92: count the symbol, build the progress event, call writer.write.
EmitProgress(newFailed, newResults, outcome) ==
  /\ outcomes' = Append(outcomes, outcome)
  /\ failedSymbols' = newFailed
  /\ allResults' = newResults
  /\ processedCount' = processedCount + 1
  /\ pending' = ProgressEvent(ProgressUpdate(processedCount + 1, Len(body.symbols), newFailed))
  /\ srv' = "progress"

\* QuoteReturns without the inner try/catch: a quote that throws or is
\* empty ('Invalid symbol') goes to the outer catch.
QuoteReturnsUncaught ==
  /\ srv = "quote"
  /\ \E o \in QuoteOutcomes :
       IF o = "quote"
       THEN /\ calls' = Append(calls, Call("historical", body.symbols[pos]))
            /\ srv' = "historical"
            /\ UNCHANGED <<thrown, pending>>
       ELSE /\ calls' = calls
            /\ thrown' = ErrorOf("Invalid symbol")
            /\ pending' = ErrorEvent("Invalid symbol")
            /\ srv' = "catchWrite"
  /\ UNCHANGED <<body, status, stream, pos, processedCount, failedSymbols,
                 allResults, events, sent, outcomes, closeCalls>>
  /\ UNCHANGED <<conn, clientVars>>

\* Lines 64-69: quote throws, or yields nothing (Invalid symbol), or yields
\* a quote and historical is called.
QuoteReturns ==
  /\ srv = "quote"
  /\ \E o \in QuoteOutcomes :
       IF o = "quote"
       THEN /\ calls' = Append(calls, Call("historical", body.symbols[pos]))
            /\ srv' = "historical"
            /\ UNCHANGED <<failedSymbols, allResults, processedCount, pending, outcomes>>
       ELSE /\ calls' = calls
            /\ EmitProgress(CatchSymbol(failedSymbols, body.symbols[pos]), allResults,
                            QuoteFailed(o))
  /\ UNCHANGED <<body, status, stream, pos, thrown, events, sent, closeCalls>>
  /\ UNCHANGED <<conn, clientVars>>

\* Lines 69-74: historical throws, or its rows are tagged and appended.
HistoricalReturns ==
  /\ srv = "historical"
  /\ \E h \in HistoricalOutcomes :
       IF h.throws
       THEN EmitProgress(CatchSymbol(failedSymbols, body.symbols[pos]), allResults, Failed)
       ELSE EmitProgress(failedSymbols, allResults \o TagRows(h.rows, body.symbols[pos]),
                         Rows(Len(h.rows)))
  /\ UNCHANGED <<body, status, stream, pos, thrown, events, sent, calls, closeCalls>>
  /\ UNCHANGED <<conn, clientVars>>

\* NoRows with a single row counting as no data.
NoRowsOffByOne(results) == Len(results) <= 1

\* NoRows without the test: the accumulator is never taken as empty.
NoRowsNever(results) == FALSE

\* Line 95: `allResults.length === 0`
NoRows(results) == Len(results) = 0

\* Lines 105-110: the outer catch takes e and calls writer.write on the error event.
OuterCatch(e) ==
  /\ thrown' = e
  /\ pending' = ErrorEvent(MessageOf(e))
  /\ srv' = "catchWrite"

\* A write or close on the errored stream rejects with the reason the
\* stream was cancelled with; the outer catch takes it.
Rejected == \E r \in CancelReasons : OuterCatch(r)

\* ProgressWritten with the rejection of the write swallowed: the loop
\* goes on as after an accepted write, the event lost.
ProgressWrittenSwallowed ==
  /\ srv = "progress"
  /\ sent' = IF stream = "open" THEN sent \o Encode(pending) ELSE sent
  /\ events' = IF stream = "open" THEN Append(events, pending) ELSE events
  /\ IF pos < Len(body.symbols)
     THEN /\ pos' = pos + 1
          /\ calls' = Append(calls, Call("delay", body.symbols[pos + 1]))
          /\ srv' = "delay"
          /\ pending' = NoEvent
          /\ thrown' = thrown
     ELSE /\ IF NoRows(allResults)
             THEN OuterCatch(ErrorOf(NoDataMsg))
             ELSE /\ pending' = CompleteEvent(ParserParse(allResults))
                  /\ srv' = "complete"
                  /\ thrown' = thrown
          /\ UNCHANGED <<pos, calls>>
  /\ UNCHANGED <<body, status, stream, processedCount, failedSymbols,
                 allResults, outcomes, closeCalls>>
  /\ UNCHANGED <<conn, clientVars>>

\* The awaited write of a progress event settles (line 90).  Accepted: the
\* loop goes on to the next symbol's delay, or ends and lines 95-103 run up
\* to the write of the complete event.  Rejected: the outer catch.
ProgressWritten ==
  /\ srv = "progress"
  /\ IF stream = "open"
     THEN /\ sent' = sent \o Encode(pending)
          /\ events' = Append(events, pending)
          /\ IF pos < Len(body.symbols)
             THEN /\ pos' = pos + 1
                  /\ calls' = Append(calls, Call("delay", body.symbols[pos + 1]))
                  /\ srv' = "delay"
                  /\ pending' = NoEvent
                  /\ thrown' = thrown
             ELSE /\ IF NoRows(allResults)
                     THEN OuterCatch(ErrorOf(NoDataMsg))
                     ELSE /\ pending' = CompleteEvent(ParserParse(allResults))
                          /\ srv' = "complete"
                          /\ thrown' = thrown
                  /\ UNCHANGED <<pos, calls>>
     ELSE /\ Rejected
          /\ UNCHANGED <<sent, events, pos, calls>>
  /\ UNCHANGED <<body, status, stream, processedCount, failedSymbols,
                 allResults, outcomes, closeCalls>>
  /\ UNCHANGED <<conn, clientVars>>

\* The awaited write of the complete event settles (line 103); accepted,
\* writer.close() is called (line 104).
CompleteWritten ==
  /\ srv = "complete"
  /\ IF stream = "open"
     THEN /\ sent' = sent \o Encode(pending)
          /\ events' = Append(events, pending)
          /\ pending' = NoEvent
          /\ closeCalls' = closeCalls + 1
          /\ srv' = "close"
          /\ thrown' = thrown
     ELSE /\ Rejected
          /\ UNCHANGED <<sent, events, closeCalls>>
  /\ UNCHANGED <<body, status, stream, pos, processedCount, failedSymbols,
                 allResults, calls, outcomes>>
  /\ UNCHANGED <<conn, clientVars>>

\* CloseReturns with a close that rejects although the stream still takes
\* writes.
CloseRejectsWritable ==
  /\ srv = "close"
  /\ OuterCatch(NonError)
  /\ stream' = stream
  /\ UNCHANGED <<body, status, pos, processedCount, failedSymbols,
                 allResults, events, sent, calls, outcomes, closeCalls>>
  /\ UNCHANGED <<conn, clientVars>>

\* The awaited close of line 104 settles.
CloseReturns ==
  /\ srv = "close"
  /\ IF stream = "open"
     THEN /\ stream' = "closed"
          /\ srv' = "done"
          /\ UNCHANGED <<thrown, pending>>
     ELSE /\ Rejected
          /\ stream' = stream
  /\ UNCHANGED <<body, status, pos, processedCount, failedSymbols,
                 allResults, events, sent, calls, outcomes, closeCalls>>
  /\ UNCHANGED <<conn, clientVars>>

\* The awaited write of the error event settles (line 108); accepted,
\* writer.close() is called (line 111); rejected, the rejection leaves the
\* task, which nothing awaits.
CatchWritten ==
  /\ srv = "catchWrite"
  /\ IF stream = "open"
     THEN /\ sent' = sent \o Encode(pending)
          /\ events' = Append(events, pending)
          /\ pending' = NoEvent
          /\ closeCalls' = closeCalls + 1
          /\ srv' = "catchClose"
     ELSE /\ srv' = "unhandled"
          /\ UNCHANGED <<sent, events, pending, closeCalls>>
  /\ UNCHANGED <<body, status, stream, pos, processedCount, failedSymbols,
                 allResults, thrown, calls, outcomes>>
  /\ UNCHANGED <<conn, clientVars>>

\* The awaited close of line 111 settles.
CatchCloseReturns ==
  /\ srv = "catchClose"
  /\ IF stream = "open"
     THEN /\ stream' = "closed"
          /\ srv' = "done"
     ELSE /\ srv' = "unhandled"
          /\ stream' = stream
  /\ UNCHANGED <<body, status, pos, processedCount, failedSymbols,
                 allResults, thrown, pending, events, sent, calls, outcomes, closeCalls>>
  /\ UNCHANGED <<conn, clientVars>>

\* The client goes away or the connection drops while the stream is open or
\* the page still reads: the runtime cancels the response's readable side,
\* which errors the writable side of the TransformStream unless it is
\* closed already, and the read the page is awaiting rejects (page.tsx 61,
\* 104-108).
Disconnect ==
  /\ conn = "up"
  /\ stream = "open" \/ cpc = "read"
  /\ conn' = "down"
  /\ stream' = IF stream = "open" THEN "errored" ELSE stream
  /\ IF cpc = "read"
     THEN CatchAndFinally(ErrorOf(NetworkErrorMsg))
     ELSE UNCHANGED <<error, loading, cpc>>
  /\ UNCHANGED <<srv, body, status, pos, processedCount, failedSymbols, allResults,
                 thrown, pending, events, sent, calls, outcomes, closeCalls>>
  /\ UNCHANGED <<symbols, progress, buffer, rd, downloads, blocks>>

\* --------------------------------------------------------- the form's page
\* handleSubmit, lines 20-50: parse the symbols box; reject an empty list
\* locally, else call fetch with the parsed list and the two dates.
Submit ==
  /\ cpc = "idle"
  /\ srv = "idle"
  /\ \E text \in FormTexts, startDate \in DateInputs, endDate \in DateInputs :
       LET symbolList == ParseSymbols(text)
       IN /\ symbols' = text
          /\ IF Len(symbolList) = 0
             THEN /\ error' = NoSymbolMsg
                  /\ loading' = FALSE
                  /\ cpc' = "done"
                  /\ UNCHANGED <<progress, body, srv>>
             ELSE /\ loading' = TRUE
                  /\ error' = ""
                  /\ progress' = [current |-> 0, total |-> Len(symbolList), error |-> Undefined]
                  /\ cpc' = "fetch"
                  /\ body' = Body(TRUE, TRUE, symbolList, startDate, endDate)
                  /\ srv' = "pending"
  /\ UNCHANGED <<status, stream, pos, processedCount, failedSymbols,
                 allResults, thrown, pending, events, sent, calls, outcomes, closeCalls>>
  /\ UNCHANGED <<conn, buffer, rd, downloads, blocks>>

\* A client that is not the page posts a body.
OtherPost ==
  /\ cpc = "idle"
  /\ srv = "idle"
  /\ \E b \in OtherBodies : body' = b
  /\ srv' = "pending"
  /\ UNCHANGED <<status, stream, pos, processedCount, failedSymbols,
                 allResults, thrown, pending, events, sent, calls, outcomes, closeCalls>>
  /\ UNCHANGED <<conn, clientVars>>

\* fetch rejects: the request never reaches the handler.
FetchFails ==
  /\ cpc = "fetch"
  /\ srv = "pending"
  /\ srv' = "lost"
  /\ CatchAndFinally(ErrorOf(FetchFailedMsg))
  /\ UNCHANGED <<body, status, stream, pos, processedCount, failedSymbols,
                 allResults, thrown, pending, events, sent, calls, outcomes, closeCalls>>
  /\ UNCHANGED <<conn, symbols, progress, buffer, rd, downloads, blocks>>

\* Lines 52-54: something on the way answers without a body.
FetchNoBody ==
  /\ cpc = "fetch"
  /\ srv = "pending"
  /\ srv' = "lost"
  /\ CatchAndFinally(ErrorOf(NoBodyMsg))
  /\ UNCHANGED <<body, status, stream, pos, processedCount, failedSymbols,
                 allResults, thrown, pending, events, sent, calls, outcomes, closeCalls>>
  /\ UNCHANGED <<conn, symbols, progress, buffer, rd, downloads, blocks>>

\* Remainder with the buffer emptied after every read.
RemainderDropped(pieces) == <<>>

\* Line 68: `buffer = lines.pop() || ''`, the piece after the last double newline.
Remainder(pieces) == Last(pieces)

\* Lines 61-102: one read that returns the next k tokens of the body; they
\* are appended to the buffer and the buffer is split at the double
\* newlines: all pieces but the last are complete blocks and are handled in
\* order, the last (`lines.pop() || ''`) stays in the buffer.  A throw ends
\* the handler through its catch and finally.
ClientRead ==
  /\ cpc = "read"
  /\ conn = "up"
  /\ \E k \in 1..(Len(sent) - rd) :
     \E pieces \in {SplitNL(buffer \o SubSeq(sent, rd + 1, rd + k), 2)} :
     \E st \in {ProcessBlocks(Front(pieces),
                              [progress |-> progress, downloads |-> downloads,
                               thrown |-> NoThrow, taken |-> 0])} :
          /\ rd' = rd + k
          /\ buffer' = Remainder(pieces)
          /\ blocks' = blocks \o SubSeq(pieces, 1, st.taken)
          /\ progress' = st.progress
          /\ downloads' = st.downloads
          /\ IF st.thrown # NoThrow
             THEN CatchAndFinally(st.thrown)
             ELSE UNCHANGED <<error, loading, cpc>>
  /\ UNCHANGED <<serverVars, conn, symbols>>

\* The response body is complete once a JSON answer was given or the stream
\* was closed.
BodyComplete == status \in {400, 500} \/ stream = "closed"

\* Lines 63 and 106-108: the read reports done; the loop ends.
ClientEof ==
  /\ cpc = "read"
  /\ conn = "up"
  /\ rd = Len(sent)
  /\ BodyComplete
  /\ loading' = FALSE
  /\ cpc' = "done"
  /\ UNCHANGED <<serverVars, conn, symbols, error, progress, buffer, rd, downloads, blocks>>

\* ------------------------------------------------------- the specification
Next ==
  \/ Submit
  \/ OtherPost
  \/ FetchFails
  \/ FetchNoBody
  \/ Post
  \/ DelayElapsed
  \/ QuoteReturns
  \/ HistoricalReturns
  \/ ProgressWritten
  \/ CompleteWritten
  \/ CloseReturns
  \/ CatchWritten
  \/ CatchCloseReturns
  \/ Disconnect
  \/ ClientRead
  \/ ClientEof

Spec == Init /\ [][Next]_vars

\* The steps of the handler, the task and the read loop: an awaited
\* promise settles, an arrived byte is read.  The event loops run them
\* whenever one can be taken.  Nothing obliges the connection to drop, the
\* fetch to fail or a request to be made.
Step ==
  \/ Post
  \/ DelayElapsed
  \/ QuoteReturns
  \/ HistoricalReturns
  \/ ProgressWritten
  \/ CompleteWritten
  \/ CloseReturns
  \/ CatchWritten
  \/ CatchCloseReturns
  \/ ClientRead
  \/ ClientEof

Fairness == WF_vars(Step)

FairSpec == Spec /\ Fairness

\* ------------------------------------------ the page on any response body
\* The page's read loop does not know which server wrote the body it reads.
\* FeedSpec starts where fetch has resolved with a complete body made of
\* up to MaxEvents events in the event format, in any order, and lets the
\* page read it in chunks of any sizes.
FedEvents ==
  {ProgressEvent(ProgressUpdate(1, 2, <<>>)),
   ProgressEvent(ProgressUpdate(2, 2, <<"BAD">>)),
   ErrorEvent(NoDataMsg),
   CompleteEvent(ParserParse(TagRows(<<1>>, "AAPL")))}
FedBodies == SeqsUpTo(FedEvents, MaxEvents) \ {<<>>}

FeedInit ==
  /\ srv = "done"
  /\ body = Body(TRUE, TRUE, <<"AAPL", "BAD">>, "2023-01-01", "2023-01-01")
  /\ status = 200
  /\ stream = "closed"
  /\ pos = 0
  /\ processedCount = 0
  /\ failedSymbols = <<>>
  /\ allResults = <<>>
  /\ thrown = NoThrow
  /\ pending = NoEvent
  /\ events \in FedBodies
  /\ sent = Flatten([i \in 1..Len(events) |-> Encode(events[i])])
  /\ calls = <<>>
  /\ outcomes = <<>>
  /\ closeCalls = 0
  /\ conn = "up"
  /\ cpc = "read"
  /\ symbols = <<"aapl", " Bad ">>
  /\ loading = TRUE
  /\ error = ""
  /\ progress = [current |-> 0, total |-> 2, error |-> Undefined]
  /\ buffer = <<>>
  /\ rd = 0
  /\ downloads = <<>>
  /\ blocks = <<>>

FeedNext ==
  \/ ClientRead
  \/ ClientEof

FeedSpec == FeedInit /\ [][FeedNext]_vars

\* ------------------------------------------------------------------ claims
\* What the claims speak of.
Symbols == body.symbols
Total == Len(body.symbols)
EventsNamed(name) == SelectSeq(events, LAMBDA e : e.event = name)
ProgressEvents == EventsNamed("progress")
\* The task ended with every write and close accepted: the client stayed
\* connected for as long as the stream was open.
EndedIntact == srv = "done"
TaskEnded == srv \in {"done", "unhandled"}

RECURSIVE SumRows(_)
SumRows(os) == IF os = <<>> THEN 0 ELSE Head(os).rows + SumRows(Tail(os))
SomeSucceeded == \E i \in 1..Len(outcomes) : outcomes[i].ok
SomeFailed == \E i \in 1..Len(outcomes) : ~outcomes[i].ok

\* The data lines of a CSV text: one newline precedes each.
CsvDataRows(csv) == Cardinality({i \in 1..Len(csv) : csv[i] = NL})

\* C1: the k-th progress event the stream accepted carries current = k and
\* total = N (the number of symbols); there are never more than N; while no
\* write was rejected there is one per counted symbol once its write has
\* settled; and a task that ends with the stream intact has written
\* exactly N, whatever the provider did.
C1_ProgressEvents ==
  /\ Len(ProgressEvents) <= Total
  /\ \A k \in 1..Len(ProgressEvents) :
       /\ ProgressEvents[k].json.current = k
       /\ ProgressEvents[k].json.total = Total
  /\ (stream = "open" /\ srv # "progress") => Len(ProgressEvents) = processedCount
  /\ EndedIntact => Len(ProgressEvents) = Total

\* C1 witness: two symbols, one failed and one succeeded, task ended intact.
C1_Witness ==
  /\ EndedIntact
  /\ Total = 2
  /\ Len(ProgressEvents) = 2
  /\ SomeFailed
  /\ SomeSucceeded

\* C2 as stated: if at least one symbol succeeded (historical returned,
\* with any number of rows, zero included) and the task ended with the
\* stream intact, exactly one complete event and no error event was
\* written, and the CSV has as many data rows as the provider returned.
C2_AsStated ==
  (EndedIntact /\ SomeSucceeded) =>
     /\ Len(EventsNamed("complete")) = 1
     /\ Len(EventsNamed("error")) = 0
     /\ CsvDataRows(EventsNamed("complete")[1].csv) = SumRows(outcomes)

\* C2 amended: if the successful symbols returned at least one row in
\* total and the task ended with the stream intact, exactly one complete
\* event and no error event was written, the complete event is the last
\* event, and its CSV has as many data rows as the provider returned for
\* the successful symbols.
C2_CompleteWhenRows ==
  (EndedIntact /\ SumRows(outcomes) > 0) =>
     /\ Len(EventsNamed("complete")) = 1
     /\ Len(EventsNamed("error")) = 0
     /\ Last(events).event = "complete"
     /\ CsvDataRows(Last(events).csv) = SumRows(outcomes)

\* C2 witness: two symbols, one failed, the other returned a row, and the
\* complete event was written.
C2_Witness ==
  /\ EndedIntact
  /\ Total = 2
  /\ SomeFailed
  /\ SumRows(outcomes) = 1
  /\ Len(EventsNamed("complete")) = 1

\* C3: if the accumulator is empty after all symbols (every symbol failed
\* or returned no rows) and the task ended with the stream intact, the
\* events written are the N progress events followed by exactly one error
\* event with the message "No valid data retrieved for any symbols", no
\* complete event, and the stream was closed by one call of close.
C3_TotalFailure ==
  (EndedIntact /\ SumRows(outcomes) = 0) =>
     /\ Len(events) = Total + 1
     /\ \A k \in 1..Total : events[k].event = "progress"
     /\ events[Total + 1].event = "error"
     /\ events[Total + 1].json.error = "No valid data retrieved for any symbols"
     /\ Len(EventsNamed("complete")) = 0
     /\ stream = "closed"
     /\ closeCalls = 1

\* C3 witness: two symbols, one failed and one returned no rows, and the
\* error event was written.
C3_Witness ==
  /\ EndedIntact
  /\ Total = 2
  /\ SomeFailed
  /\ SomeSucceeded
  /\ SumRows(outcomes) = 0
  /\ Len(EventsNamed("error")) = 1

\* The page's for loop has taken up the block of the complete event.
TookComplete ==
  \E i \in 1..Len(blocks) : blocks[i] # <<>> /\ blocks[i][1] = <<"event: ", "complete">>

\* C4 as stated: once the page has taken up the complete event, it has
\* saved exactly one file, named stock_historical_data.csv, whose content
\* is the CSV text the server wrote, and it shows no terminal error.
C4_AsStated ==
  TookComplete =>
     /\ Len(downloads) = 1
     /\ downloads[1].name = "stock_historical_data.csv"
     /\ downloads[1].content = EventsNamed("complete")[1].csv
     /\ error = ""

\* The symbols an error field lists: the list it was joined from.
SymbolLists == SeqsUpTo(SymbolNames, MaxFields)
Listed(err) ==
  IF err # Undefined /\ \E f \in SymbolLists : ErrorField(f) = err
  THEN CHOOSE f \in SymbolLists : ErrorField(f) = err
  ELSE <<>>
Mentions(S, e) == \E i \in 1..Len(Listed(e.json.error)) : Listed(e.json.error)[i] = S
\* S failed at one of the first k turns.
FailedBy(S, k) == \E j \in 1..k : Symbols[j] = S /\ ~outcomes[j].ok

\* C5: the k-th progress event written lists a symbol S in its error field
\* exactly when S failed at one of the turns 1..k: every event at or after
\* a failing turn of S lists S, and no event before S's first failing turn
\* mentions S (repeated symbols included).
C5_FailedListed ==
  \A k \in 1..Len(ProgressEvents) : \A S \in SymbolNames :
     Mentions(S, ProgressEvents[k]) <=> FailedBy(S, k)

\* C5 witness: two different symbols, the first succeeded and the second
\* failed, and both progress events were written.
C5_Witness ==
  /\ Total = 2
  /\ Symbols[1] # Symbols[2]
  /\ Len(ProgressEvents) = 2
  /\ outcomes[1].ok
  /\ ~outcomes[2].ok

\* C6 as stated: whenever the streaming task has ended, on whatever path,
\* writer.close() was called exactly once.
C6_AsStated == TaskEnded => closeCalls = 1

\* The handler has dealt with the request.
Handled == srv \notin {"idle", "pending", "lost"}

\* C7: a parseable body whose symbols are missing or empty, or whose
\* startDate or endDate is missing, is answered with status 400 and the
\* body {message: 'Missing required fields'}; no stream is created, no
\* event written and no delay, quote or historical call made.
C7_MissingFieldsRejected ==
  (/\ Handled
   /\ body.valid
   /\ \/ ~body.hasSymbols
      \/ body.symbols = <<>>
      \/ body.startDate = ""
      \/ body.endDate = "") =>
     /\ status = 400
     /\ JsonParse(Flatten(sent)).ok
     /\ JsonParse(Flatten(sent)).value = MessageBody("Missing required fields")
     /\ stream = "none"
     /\ events = <<>>
     /\ calls = <<>>
     /\ srv = "replied"

\* C7 witness: two symbols and a start date, but no end date: answered 400.
C7_Witness ==
  /\ status = 400
  /\ Total = 2
  /\ body.startDate # ""
  /\ body.endDate = ""

\* C8 as stated: when the task has ended after its outer catch took an
\* exception, the exception did not escape, exactly one error event with
\* the exception's message is the last event written, and the stream is
\* closed.
C8_AsStated ==
  (TaskEnded /\ thrown # NoThrow) =>
     /\ srv = "done"
     /\ Len(EventsNamed("error")) = 1
     /\ Last(events) = ErrorEvent(MessageOf(thrown))
     /\ stream = "closed"

\* What the page shows at submit, the response text read so far, and what
\* one pass over the complete blocks of that text makes of it.
ViewAtSubmit ==
  [progress |-> [current |-> 0, total |-> Total, error |-> Undefined],
   downloads |-> <<>>, thrown |-> NoThrow, taken |-> 0]
Consumed == SubSeq(sent, 1, rd)
OneShot == ProcessBlocks(Front(SplitNL(Consumed, 2)), ViewAtSubmit)

\* C9: however the response text read so far was cut into reads, the page
\* has taken up exactly the blocks one read of that whole text would take
\* up (its complete blocks, in order, up to the first that throws), shows
\* the same progress, saved the same files and raised the same error; and
\* unless it threw, its buffer is the text after the last double newline.
C9_ChunkIndependent ==
  (cpc \in {"read", "done"} /\ status # 0) =>
     Bind(SplitNL(Consumed, 2), LAMBDA pieces :
       Bind(ProcessBlocks(Front(pieces), ViewAtSubmit), LAMBDA one :
         /\ blocks = SubSeq(pieces, 1, one.taken)
         /\ progress = one.progress
         /\ downloads = one.downloads
         /\ one.thrown = NoThrow => buffer = Last(pieces)
         /\ one.thrown # NoThrow => (cpc = "done" /\ error = MessageOf(one.thrown))))

\* C9 witness: the page has taken up two blocks and the last read ended
\* between the two newlines that end the next block.
C9_Witness ==
  /\ cpc = "read"
  /\ Len(blocks) = 2
  /\ Len(buffer) = 4
  /\ buffer[3] # NL
  /\ buffer[4] = NL

\* The loading flag is set while the handler runs and cleared after it,
\* and the message shown is that of the error that ended it: the local
\* rejection, the failed fetch or missing body, the exception a block
\* raised, the failed read; none after a normal end.
LoadingAndError ==
  /\ cpc \in {"fetch", "read"} => loading
  /\ cpc \in {"idle", "done"} => ~loading
  /\ (cpc = "done" /\ srv = "idle") => error = "Please enter at least one symbol"
  /\ (cpc = "done" /\ srv = "lost") => error \in {FetchFailedMsg, "No response body"}
  /\ (cpc = "done" /\ status # 0) =>
        Bind(OneShot, LAMBDA one :
          error = (IF one.thrown # NoThrow THEN MessageOf(one.thrown)
                   ELSE IF conn = "down" THEN NetworkErrorMsg
                   ELSE ""))

\* C10: the loading flag is true from submit until handleSubmit finishes
\* and false afterwards on every outcome, every error raised ends up as the
\* message shown, and every submission eventually has loading = false.
C10_LoadingCleared == [](LoadingAndError) /\ (loading ~> ~loading)

\* C10 witness: the handler ended by the exception a block raised, with
\* the flag cleared and the exception's message shown.
C10_Witness ==
  /\ cpc = "done"
  /\ OneShot.thrown # NoThrow
  /\ error = MessageOf(OneShot.thrown)
  /\ ~loading

\* A terminal event: complete or error.
Terminal(e) == e.event \in {"complete", "error"}

\* C11: a terminal event (complete or error) the stream accepted is the
\* last event it accepted: there is at most one, complete and error never
\* both appear, and nothing is written after it, also when writer.close
\* rejects after the complete event was written.
C11_OneTerminal ==
  /\ \A i \in 1..Len(events) : Terminal(events[i]) => i = Len(events)
  /\ Len(EventsNamed("complete")) + Len(EventsNamed("error")) <= 1
  /\ Len(SelectSeq(SplitNL(sent, 2), LAMBDA b : b # <<>> /\ b[1] \in
        {<<"event: ", "complete">>, <<"event: ", "error">>})) <= 1

\* C11 witness: the complete event was written, the close after it
\* rejected, the outer catch took the rejection and its write of the error
\* event has settled.
C11_Witness ==
  /\ Len(EventsNamed("complete")) = 1
  /\ thrown # NoThrow
  /\ closeCalls = 1
  /\ srv = "unhandled"

\* The provider calls made so far, in the order they were made, and the
\* position in the symbol list the k-th of them belongs to: each position
\* starts with its quote call.
ProviderCalls == SelectSeq(calls, LAMBDA c : c.op \in {"quote", "historical"})
PositionOf(k) ==
  Len(SelectSeq(SubSeq(ProviderCalls, 1, k), LAMBDA c : c.op = "quote"))
QuoteCalls == SelectSeq(calls, LAMBDA c : c.op = "quote")
\* The positions whose provider calls have not all settled: begun by a
\* quote call and not yet counted.
Outstanding == Len(QuoteCalls) - Len(outcomes)

\* C12: at most one provider call is outstanding at any time (and then the
\* task is awaiting exactly it); the provider calls are made in symbol
\* input order, position by position; and the quote call of position i+1
\* is made only after the progress event of position i was written and its
\* write accepted.
C12_Sequential ==
  /\ Outstanding \in {0, 1}
  /\ Outstanding = 1 <=> srv \in {"quote", "historical"}
  /\ srv = "quote" => Last(ProviderCalls).op = "quote"
  /\ srv = "historical" => Last(ProviderCalls).op = "historical"
  /\ \A k \in 1..Len(ProviderCalls) :
       /\ PositionOf(k) \in 1..Total
       /\ ProviderCalls[k].symbol = Symbols[PositionOf(k)]
       /\ k > 1 => PositionOf(k - 1) <= PositionOf(k)
       /\ PositionOf(k) > 1 => Len(ProgressEvents) >= PositionOf(k) - 1
  /\ Len(QuoteCalls) <= Len(ProgressEvents) + 1

\* C12 witness: two different symbols; the first was processed and its
\* progress event written, and the second's historical call is outstanding.
C12_Witness ==
  /\ Total = 2
  /\ Symbols[1] # Symbols[2]
  /\ srv = "historical"
  /\ Len(ProviderCalls) >= 3
  /\ Len(ProgressEvents) = 1

\* The symbols that failed at the turns 1..k, in the order they failed.
RECURSIVE FailedUpTo(_)
FailedUpTo(k) ==
  IF k = 0 THEN <<>>
  ELSE FailedUpTo(k - 1) \o (IF outcomes[k].ok THEN <<>> ELSE <<Symbols[k]>>)
\* 'Failed to fetch: ' followed by the symbols joined by ', '.
RECURSIVE CommaList(_)
CommaList(s) ==
  IF Len(s) = 1 THEN s[1] ELSE CommaList(SubSeq(s, 1, Len(s) - 1)) \o ", " \o s[Len(s)]
FailedText(s) == "Failed to fetch: " \o CommaList(s)

\* C13: the k-th progress event written has no error field exactly when no
\* symbol failed at the turns 1..k; otherwise its error field is 'Failed
\* to fetch: ' followed by the symbols that failed at the turns 1..k, in
\* the order they failed, joined by ', ', a symbol that failed at two
\* positions appearing twice.  The text on the wire has an "error" member
\* exactly in the second case.
C13_ErrorField ==
  \A k \in 1..Len(ProgressEvents) :
     LET e == ProgressEvents[k].json.error
         wire == Stringify(ProgressEvents[k].json)
     IN /\ e = Undefined <=> FailedUpTo(k) = <<>>
        /\ FailedUpTo(k) # <<>> => e = FailedText(FailedUpTo(k))
        /\ (\E i \in 1..Len(wire) : wire[i] = "\"error\":\"") <=> FailedUpTo(k) # <<>>

\* C13 witness: the same symbol twice, failed both times, and the second
\* progress event lists it twice.
C13_Witness ==
  /\ Total = 2
  /\ Symbols[1] = Symbols[2]
  /\ Len(ProgressEvents) = 2
  /\ ~outcomes[1].ok
  /\ ~outcomes[2].ok
  /\ ProgressEvents[2].json.error = "Failed to fetch: " \o Symbols[1] \o ", " \o Symbols[1]

\* The rows the provider returned at the turns 1..k for the symbols that
\* succeeded, turn by turn and within a turn in the provider's order, each
\* with the symbol it was requested for.
RECURSIVE ReturnedUpTo(_)
ReturnedUpTo(k) ==
  IF k = 0 THEN <<>>
  ELSE ReturnedUpTo(k - 1)
       \o [d \in 1..outcomes[k].rows |-> [symbol |-> Symbols[k], date |-> d]]
\* Reading a CSV back: the lines after the header line, and the symbol and
\* date columns of a line.
CsvLines(csv) == Tail(SplitNL(csv, 1))
AllRows == {[symbol |-> s, date |-> d] : s \in SymbolNames, d \in 1..MaxRows}
ReadLine(line) ==
  IF Len(line) = 1 /\ Len(line[1]) = 1 /\ \E r \in AllRows : CsvLine(r) = line[1][1]
  THEN {r \in AllRows : CsvLine(r) = line[1][1]}
  ELSE {}

\* C14: the accumulator always holds the rows the provider returned for
\* the successful symbols so far, in processing order and within a symbol
\* in the provider's order, each tagged with the symbol it was requested
\* for; and the CSV of a complete event written has the header line and
\* then one line per such row, in that order, whose symbol and date columns
\* read back as exactly that row.
C14_RowsInOrder ==
  /\ allResults = ReturnedUpTo(Len(outcomes))
  /\ \A i \in 1..Len(events) :
       events[i].event = "complete" =>
         LET lines == CsvLines(events[i].csv)
         IN /\ Head(SplitNL(events[i].csv, 1)) = <<<<CsvHeader>>>>
            /\ Len(lines) = Len(ReturnedUpTo(Total))
            /\ \A j \in 1..Len(lines) : ReadLine(lines[j]) = {ReturnedUpTo(Total)[j]}

\* C14 witness: two different symbols, two rows for the first and one for
\* the second, and the complete event was written.
C14_Witness ==
  /\ Total = 2
  /\ Symbols[1] # Symbols[2]
  /\ Len(outcomes) = 2
  /\ outcomes[1].rows = 2
  /\ outcomes[2].rows = 1
  /\ Len(EventsNamed("complete")) = 1

\* A historical call was made at position j of the symbol list.
HistoricalAt(j) ==
  \E k \in 1..Len(ProviderCalls) :
     ProviderCalls[k].op = "historical" /\ PositionOf(k) = j

\* C15: a historical call is made only directly after the quote call of
\* the same position, once that call has returned a quote; a position whose
\* quote threw or was empty has no historical call, is recorded in
\* failedSymbols and counted like any other, and the outer catch never
\* takes its failure: what the outer catch takes is the no-data error after
\* the whole list, or the rejection of a write or close.
C15_QuoteFirst ==
  /\ \A k \in 1..Len(ProviderCalls) :
       ProviderCalls[k].op = "historical" =>
         /\ k > 1
         /\ ProviderCalls[k - 1] = Call("quote", ProviderCalls[k].symbol)
         /\ PositionOf(k - 1) = PositionOf(k)
         /\ PositionOf(k) <= Len(outcomes) => outcomes[PositionOf(k)].quote = "quote"
         /\ PositionOf(k) > Len(outcomes) => srv = "historical"
  /\ \A j \in 1..Len(outcomes) :
       /\ outcomes[j].quote = "quote" <=> HistoricalAt(j)
       /\ outcomes[j].quote # "quote" =>
            /\ ~outcomes[j].ok
            /\ FailedUpTo(j) = Append(FailedUpTo(j - 1), Symbols[j])
  /\ failedSymbols = FailedUpTo(Len(outcomes))
  /\ processedCount = Len(outcomes)
  /\ thrown \in {NoThrow, ErrorOf(NoDataMsg)} \cup CancelReasons
  /\ thrown = ErrorOf(NoDataMsg) => Len(outcomes) = Total
  /\ thrown \in CancelReasons => stream = "errored"

\* C15 witness: two symbols; the first's quote was empty, the second's
\* quote threw; both were counted, no historical call was made, and the
\* task ended with the no-data error event.
C15_Witness ==
  /\ Total = 2
  /\ Len(outcomes) = 2
  /\ outcomes[1].quote = "empty"
  /\ outcomes[2].quote = "throws"
  /\ Len(failedSymbols) = 2
  /\ ~HistoricalAt(1)
  /\ ~HistoricalAt(2)
  /\ EndedIntact

\* The i-th block the page took up is an error event, and the message in it.
ErrorBlockAt(i) == blocks[i] # <<>> /\ blocks[i][1] = <<"event: ", "error">>
ErrorIn(block) ==
  JsonParse(RemoveFirst(Flatten(SplitNL(block, 1)[2]), "data: ")).value.error
\* What the page showed after the first i blocks it took up.
ViewAfter(i) == ProcessBlocks(SubSeq(blocks, 1, i), ViewAtSubmit)

\* C16: once the page has taken up an error event, that block is the last
\* it takes up: handleSubmit has ended with the flag cleared, the message
\* shown is the event's error message, and the progress shown and the
\* files saved are those from before the error event, whatever blocks
\* follow it in the body, in the same chunk or later ones.
C16_ErrorStops ==
  \A i \in 1..Len(blocks) :
     ErrorBlockAt(i) =>
       /\ i = Len(blocks)
       /\ cpc = "done"
       /\ ~loading
       /\ error = ErrorIn(blocks[i])
       /\ progress = ViewAfter(i - 1).progress
       /\ downloads = ViewAfter(i - 1).downloads

\* C16 witness: a body of three events, a progress event, an error event
\* and another progress event, all read; the page took up the first two,
\* shows the first one's progress and the error's message.
C16_Witness ==
  /\ Len(events) = 3
  /\ events[1].event = "progress"
  /\ events[2].event = "error"
  /\ events[3].event = "progress"
  /\ rd = Len(sent)
  /\ Len(blocks) = 2
  /\ ErrorBlockAt(2)
  /\ progress.current = events[1].json.current
  /\ error = NoDataMsg

\* The client went away while the loop was still running: the stream was
\* cut before the last progress event was written.
CutWhileLooping == status = 200 /\ stream = "errored" /\ Len(ProgressEvents) < Total
DelayCalls == SelectSeq(calls, LAMBDA c : c.op = "delay")

NamedIn(text) ==
  SelectSeq([i \in 1..Len(text) |-> TrimUpper(text[i])], LAMBDA s : s # "")
Submitted == cpc # "idle"

\* C18: after a submission whose text names no symbol the page shows
\* 'Please enter at least one symbol' with the loading flag cleared and no
\* request was made: none reached or is on its way to the handler; after
\* any other submission one request was made, whose body carries the
\* symbols the text names, in the order typed.
C18_LocalReject ==
  Submitted =>
     IF NamedIn(symbols) = <<>>
     THEN /\ error = "Please enter at least one symbol"
          /\ ~loading
          /\ cpc = "done"
          /\ srv = "idle"
          /\ status = 0
          /\ conn = "none"
          /\ calls = <<>>
     ELSE /\ srv # "idle"
          /\ body.valid
          /\ body.hasSymbols
          /\ body.symbols = NamedIn(symbols)

\* C18 witness, the local rejection: a text of two blank fields was
\* submitted.
C18_Witness ==
  /\ Submitted
  /\ Len(symbols) = 2
  /\ NamedIn(symbols) = <<>>
  /\ error = "Please enter at least one symbol"

\* How often x occurs in the sequence s.
Count(s, x) == Cardinality({i \in 1..Len(s) : s[i] = x})
\* The positions processed so far at which symbol S stood and failed, or
\* stood and succeeded, and the rows the provider returned at the latter.
FailedPositions(S) == {j \in 1..Len(outcomes) : Symbols[j] = S /\ ~outcomes[j].ok}
OkPositions(S) == {j \in 1..Len(outcomes) : Symbols[j] = S /\ outcomes[j].ok}
RECURSIVE RowsAt(_)
RowsAt(J) ==
  IF J = {} THEN 0
  ELSE LET j == CHOOSE x \in J : TRUE IN outcomes[j].rows + RowsAt(J \ {j})

\* C19: at every point of the loop each processed position either failed,
\* is recorded once in failedSymbols and added no row, or succeeded, is not
\* recorded, and every row returned at it is in the accumulator once:
\* failedSymbols holds each symbol as often as it failed, the accumulator
\* holds for each symbol as many rows as were returned at its successful
\* positions, and the length of failedSymbols plus the number of successful
\* positions is processedCount.
C19_FailedOrAppended ==
  /\ processedCount = Len(outcomes)
  /\ \A j \in 1..Len(outcomes) : ~outcomes[j].ok => outcomes[j].rows = 0
  /\ \A S \in SymbolNames :
       /\ Count(failedSymbols, S) = Cardinality(FailedPositions(S))
       /\ Len(SelectSeq(allResults, LAMBDA r : r.symbol = S)) = RowsAt(OkPositions(S))
  /\ Len(failedSymbols) + Cardinality({j \in 1..Len(outcomes) : outcomes[j].ok})
       = processedCount
  /\ Len(allResults) = SumRows(outcomes)
  /\ \A i, j \in 1..Len(allResults) :
       (i # j /\ allResults[i] = allResults[j]) =>
          Cardinality(OkPositions(allResults[i].symbol)) > 1

\* C19 witness: the same symbol twice; it failed the first time and
\* returned two rows the second time.
C19_Witness ==
  /\ Total = 2
  /\ Symbols[1] = Symbols[2]
  /\ Len(outcomes) = 2
  /\ ~outcomes[1].ok
  /\ outcomes[2].rows = 2
  /\ Len(failedSymbols) = 1
  /\ Len(allResults) = 2
====
